---------------------------- MODULE Spec2Model ----------------------------
(***************************************************************************)
(* A model of geogebra-types: the typed expression algebra (src/src/lib.rs) *)
(* and the construction builder that labels expressions and appends them   *)
(* to the raw document (src/src/raw.rs).                                    *)
(*                                                                         *)
(* A text (a Rust String) is a sequence of atoms.  An atom is a maximal    *)
(* run of letters, digits and '.', or one single punctuation or blank      *)
(* character, so two texts are character-identical exactly when their atom *)
(* sequences are equal, and a label such as "elem0" is one atom.           *)
(***************************************************************************)
EXTENDS Integers, Sequences, FiniteSets, TLC

VARIABLES
    data,       \* Geogebra.data: its attributes format, app, sub_app
    items,      \* Geogebra.data.construction.items
    next_id,    \* Geogebra.next_id
    h,          \* the typed handle the caller is building (None or Some)
    held,       \* the Vars the caller holds that registrations returned
    foreign,    \* the Vars the caller made itself through Expr::var
    calls,      \* history: the registration calls made so far, in order
    last,       \* history: the operation just performed and its arguments
    steps       \* history: the number of operations performed

vars == <<data, items, next_id, h, held, foreign, calls, last, steps>>

-----------------------------------------------------------------------------
(* Bounds of the model *)

\* operations (algebra, setters, registrations) in one caller script
MaxSteps == 3
\* longest text (in atoms) an algebra operation may build
MaxLen == 20
\* longest sequence a List is built from
MaxList == 2
\* largest integer a parsed f64 literal is read as
MaxLit == 9
\* longest IndexedAttrs list encoded or decoded
MaxAttrs == 3
\* width in bits the counter next_id (a usize) is scaled to
UsizeBits == 3
\* most labels a document holds before the calls that are examined
MaxDoc == 2

-----------------------------------------------------------------------------
(* Option<T> *)

None == <<>>
Some(x) == <<x>>
IsSome(o) == o # <<>>
Unwrap(o) == o[1]

-----------------------------------------------------------------------------
(* raw.rs: the document schema *)

\* raw::ElementType
ElementType == {"Point", "Segment", "Line", "Numeric", "Conic", "Ray"}

\* raw::LineStyle::default() (derived Default: every field None)
LineStyleDefault == [thickness |-> None, type_ |-> None, opacity |-> None]

\* raw::Show::none()
ShowNone == [object |-> FALSE, label |-> FALSE]

\* raw::Coords::xy
CoordsXy(x, y) == [x |-> x, y |-> y, z |-> 1]

\* raw::Val<T>::from
ValFrom(v) == [val |-> v]

\* raw::ConstructionItem::Expression(raw::Expression {..})
RawExpression(type_, label, exp) ==
    [tag |-> "Expression", type_ |-> type_, label |-> label, exp |-> exp]

-----------------------------------------------------------------------------
(* lib.rs: Style *)

\* Style::default()
StyleDefault == [display_label |-> TRUE, line_style |-> None, color |-> None]

\* mutant: the color of the style is not copied
to_element_no_color(style) ==
    [tag        |-> "Element",
     type_      |-> "Point",
     label      |-> "",
     caption    |-> None,
     label_mode |-> [val |-> "Caption"],
     show       |-> [object |-> TRUE, label |-> style.display_label],
     coords     |-> None,
     line_style |-> style.line_style,
     obj_color  |-> None]

\* Style::to_element
to_element(style) ==
    [tag        |-> "Element",
     type_      |-> "Point",
     label      |-> "",
     caption    |-> None,
     label_mode |-> ValFrom("Caption"),
     show       |-> [object |-> TRUE, label |-> style.display_label],
     coords     |-> None,
     line_style |-> style.line_style,
     obj_color  |-> style.color]

\* Point::bound()
PointBound ==
    [display_label |-> TRUE, line_style |-> None,
     color |-> Some([r |-> 97, g |-> 97, b |-> 97])]

\* Point::free()
PointFree ==
    [display_label |-> TRUE, line_style |-> None,
     color |-> Some([r |-> 21, g |-> 101, b |-> 192])]

\* Line::style()
LineStyle_ ==
    [display_label |-> FALSE, line_style |-> Some(LineStyleDefault),
     color |-> None]

\* Conic::style()
ConicStyle ==
    [display_label |-> FALSE, line_style |-> None, color |-> None]

-----------------------------------------------------------------------------
(* lib.rs: texts and format! *)

\* format!(tpl, args...): the atoms of tpl with every "{}" replaced, in
\* order, by the text of the next argument
RECURSIVE Format(_, _)
Format(tpl, args) ==
    IF tpl = <<>> THEN <<>>
    ELSE IF Head(tpl) = "{}"
         THEN Head(args) \o Format(Tail(tpl), Tail(args))
         ELSE <<Head(tpl)>> \o Format(Tail(tpl), args)

\* Display of an f64 with an integral value: the decimal digits, no ".0"
DisplayF64(v) == IF v < 0 THEN "-" \o ToString(-v) ELSE ToString(v)

\* mutant: the labels are numbered from 1
FormatLabelFromOne(id) == "elem" \o ToString(id + 1)

\* format!("elem{}", id)
FormatLabel(id) == "elem" \o ToString(id)

-----------------------------------------------------------------------------
(* lib.rs: Expression and the typed handles.  A handle is                  *)
(* [kind, expr, style, raw]: kind is the Rust newtype, expr and style are  *)
(* the fields of its Expression; raw is history: TRUE when the text holds  *)
(* a string the caller supplied verbatim (from_str_radix, Expr::var).      *)

Kinds == {"Point", "Line", "Segment", "Ray", "Conic", "Numeric", "List"}

Handle(kind, expr, style, raw) ==
    [kind |-> kind, expr |-> expr, style |-> style, raw |-> raw]

\* Expression::expr(text): default style
ExpressionExpr(text) == [expr |-> text, style |-> StyleDefault]

\* Self(expression) for a newtype: Point(e), Line(e), Numeric(e), ...
Newtype(kind, e, raw) == Handle(kind, e.expr, e.style, raw)

\* Var::new(label)
VarNew(label, of) == [label |-> label, of |-> of]

\* mutant: a Var converts to the formula registered under its label
ExpressionFromVarInlined(v) ==
    [expr  |-> IF \E i \in 1..Len(items) :
                     items[i].tag = "Expression" /\ items[i].label = v.label
               THEN (CHOOSE e \in {items[i] : i \in 1..Len(items)} :
                        e.tag = "Expression" /\ e.label = v.label).exp
               ELSE <<v.label>>,
     style |-> StyleDefault]

\* impl From<&Var<T>> for Expression
ExpressionFromVarRef(v) == [expr |-> <<v.label>>, style |-> StyleDefault]

\* impl From<Var<T>> for Expression
ExpressionFromVar(v) == ExpressionFromVarRef(v)

\* impl From<f64> for Expression
ExpressionFromF64(value) ==
    [expr  |-> Format(<<"{}", " ", "+", " ", "0i">>, <<<<DisplayF64(value)>>>>),
     style |-> StyleDefault]

\* impl From<(X, Y)> for Expression, X and Y being f64
ExpressionFromPair(p) ==
    [expr  |-> Format(<<"(", "real", "(", "{}", ")", ",", " ",
                        "real", "(", "{}", ")", ")">>,
                      <<ExpressionFromF64(p.x).expr,
                        ExpressionFromF64(p.y).expr>>),
     style |-> StyleDefault]

-----------------------------------------------------------------------------
(* The values a caller passes to an operation.  An argument is             *)
(* [rust, v, own, mode]: rust names its Rust type ("Handle" for one of the *)
(* newtypes, "Var", "Pair" for (f64, f64), "f64"), v is the value (a      *)
(* record in each case: [x, y] for a pair, [value] for an f64), mode is   *)
(* "value" or "ref" (how a Var is passed), own tells a Var a registration  *)
(* of this workspace returned from one the caller made with Expr::var.     *)

Arg(rust, v, own, mode) == [rust |-> rust, v |-> v, own |-> own, mode |-> mode]

\* impl Into<Expression> for the argument types
ExpressionFrom(a) ==
    CASE a.rust = "Handle" -> [expr |-> a.v.expr, style |-> a.v.style]
      [] a.rust = "Var"    -> IF a.mode = "ref" THEN ExpressionFromVarRef(a.v)
                                                ELSE ExpressionFromVar(a.v)
      [] a.rust = "Pair"   -> ExpressionFromPair(a.v)
      [] a.rust = "f64"    -> ExpressionFromF64(a.v.value)

\* history: does the argument's text hold a string the caller wrote itself
RawOf(a) ==
    CASE a.rust = "Handle" -> a.v.raw
      [] a.rust = "Var"    -> ~a.own
      [] OTHER             -> FALSE

\* the impl From<..> for Point / Line / Conic / Ray / Segment / Numeric /
\* List<T> that exist: a Var<Numeric> and a Var<List<T>> convert by
\* reference only
Convertible(a, kind) ==
    CASE a.rust = "Handle" -> a.v.kind = kind
      [] a.rust = "Var"    -> /\ a.v.of = kind
                              /\ (kind \in {"Numeric", "List"} => a.mode = "ref")
      [] a.rust = "Pair"   -> kind = "Point"
      [] a.rust = "f64"    -> kind = "Numeric"

\* X::from(a) for a newtype X: Self(Expression::from(a))
Into(a, kind) == Newtype(kind, ExpressionFrom(a), RawOf(a))

\* impl Object for Point, Line, Conic, Ray, Segment, Var<T>, &Var<T>
ObjectKinds == {"Point", "Line", "Conic", "Ray", "Segment"}
IsObject(a) ==
    CASE a.rust = "Handle" -> a.v.kind \in ObjectKinds
      [] a.rust = "Var"    -> a.v.of \in ObjectKinds
      [] OTHER             -> FALSE

\* <T as Expr>::get_type()
KindType(kind) ==
    CASE kind = "Point"   -> "Point"
      [] kind = "Line"    -> "Line"
      [] kind = "List"    -> "List"
      [] kind = "Numeric" -> "Numeric"
      [] kind = "Conic"   -> "Conic"
      [] kind = "Ray"     -> "Ray"
      [] kind = "Segment" -> "Segment"

get_type(a) ==
    CASE a.rust = "Handle" -> KindType(a.v.kind)
      [] a.rust = "Var"    -> KindType(a.v.of)
      [] a.rust = "Pair"   -> "Point"
      [] a.rust = "f64"    -> "Numeric"

\* <T as Expr>::Target
Target(a) ==
    CASE a.rust = "Handle" -> a.v.kind
      [] a.rust = "Var"    -> a.v.of
      [] a.rust = "Pair"   -> "Point"
      [] a.rust = "f64"    -> "Numeric"

\* mutant: the Var returned carries a freshly formatted label, not the one
\* the two items were pushed under
ExprVarOther(a, label) == VarNew(FormatLabel(next_id + 1), Target(a))

\* <T as Expr>::var(label)
ExprVar(a, label) == VarNew(label, Target(a))

\* the impl Addable for .. of lib.rs
Addable == {"Point", "Line", "Conic", "Segment", "Ray"}

-----------------------------------------------------------------------------
(* lib.rs: the algebra.  Every operation is a pure function of its         *)
(* arguments: it converts each to the handle type it expects and formats   *)
(* the converted texts into its template.                                  *)

RECURSIVE AnyRaw(_)
AnyRaw(args) ==
    IF args = <<>> THEN FALSE ELSE RawOf(Head(args)) \/ AnyRaw(Tail(args))

\* mutant: the intersection keeps the style of its first operand
PointIntersectInherit(k, l) ==
    Handle("Point",
           Format(<<"Intersect", "(", "{}", ",", " ", "{}", ")">>,
                  <<Into(k, "Line").expr, Into(l, "Line").expr>>),
           Into(k, "Line").style, AnyRaw(<<k, l>>))

\* Point::intersect(k, l)
PointIntersect(k, l) ==
    Handle("Point",
           Format(<<"Intersect", "(", "{}", ",", " ", "{}", ")">>,
                  <<Into(k, "Line").expr, Into(l, "Line").expr>>),
           PointBound, AnyRaw(<<k, l>>))

\* Point::on(v)
PointOn(v) ==
    Handle("Point",
           Format(<<"Point", "(", "{}", ")">>, <<ExpressionFrom(v).expr>>),
           PointFree, AnyRaw(<<v>>))

\* Point::from((x, y)), Point::from(var), Numeric::from(1.0), ...
From(a, kind) == Into(a, kind)

\* Line::new(a, b)
LineNew(a, b) ==
    Handle("Line",
           Format(<<"Line", "(", "{}", ",", " ", "{}", ")">>,
                  <<Into(a, "Point").expr, Into(b, "Point").expr>>),
           LineStyle_, AnyRaw(<<a, b>>))

\* Line::angle_bisector(a, b, c)
LineAngleBisector(a, b, c) ==
    Newtype("Line",
            ExpressionExpr(
               Format(<<"AngleBisector", "(", "{}", ",", " ", "{}", ",", " ",
                        "{}", ")">>,
                      <<Into(a, "Point").expr, Into(b, "Point").expr,
                        Into(c, "Point").expr>>)),
            AnyRaw(<<a, b, c>>))

\* Line::perpendicular(to, through)
LinePerpendicular(to, through) ==
    Newtype("Line",
            ExpressionExpr(
               Format(<<"PerpendicularLine", "(", "{}", ",", " ", "{}", ")">>,
                      <<Into(through, "Point").expr, Into(to, "Line").expr>>)),
            AnyRaw(<<to, through>>))

\* Line::parallel(to, through)
LineParallel(to, through) ==
    Newtype("Line",
            ExpressionExpr(
               Format(<<"Line", "(", "{}", ",", " ", "{}", ")">>,
                      <<Into(through, "Point").expr, Into(to, "Line").expr>>)),
            AnyRaw(<<to, through>>))

\* Segment::new(a, b)
SegmentNew(a, b) ==
    Newtype("Segment",
            ExpressionExpr(
               Format(<<"Segment", "(", "{}", ",", " ", "{}", ")">>,
                      <<Into(a, "Point").expr, Into(b, "Point").expr>>)),
            AnyRaw(<<a, b>>))

\* Ray::new(origin, through)
RayNew(origin, through) ==
    Newtype("Ray",
            ExpressionExpr(
               Format(<<"Ray", "(", "{}", ",", " ", "{}", ")">>,
                      <<Into(origin, "Point").expr,
                        Into(through, "Point").expr>>)),
            AnyRaw(<<origin, through>>))

\* Conic::circle(center, radius)
ConicCircle(center, radius) ==
    Handle("Conic",
           Format(<<"Circle", "(", "{}", ",", " ", "abs", "(", "{}", ")", ")">>,
                  <<Into(center, "Point").expr, Into(radius, "Numeric").expr>>),
           ConicStyle, AnyRaw(<<center, radius>>))

\* Conic::center(self), and ConicAccess::center: Conic::from(self).center()
ConicCenter(c) ==
    Handle("Point",
           Format(<<"Center", "(", "{}", ")">>, <<Into(c, "Conic").expr>>),
           PointBound, AnyRaw(<<c>>))

\* <Numeric as Num>::from_str_radix(str, radix): Err unless radix = 10
NumericFromStrRadix(str, radix) ==
    IF radix # 10
    THEN [ok |-> FALSE, value |-> None]
    ELSE [ok |-> TRUE,
          value |-> Some(Newtype("Numeric", ExpressionExpr(str), TRUE))]

\* mutant: nothing is dropped
PopNothing(text) == text
\* String::pop: drops the last character (the last atom, which is one
\* character wherever the code pops), nothing from the empty string
Pop(text) == IF text = <<>> THEN text ELSE SubSeq(text, 1, Len(text) - 1)

\* the loop of List::from: args += text; args += ", " for each element
RECURSIVE ListArgs(_)
ListArgs(elems) ==
    IF elems = <<>> THEN <<>>
    ELSE ExpressionFrom(Head(elems)).expr \o <<",", " ">>
         \o ListArgs(Tail(elems))

\* List::from(elems)
ListFrom(elems) ==
    Handle("List",
           Format(<<"{", "{}", "}">>, <<Pop(Pop(ListArgs(elems)))>>),
           StyleDefault, AnyRaw(elems))

\* set_color(r, g, b) of Point, Line, Conic, Ray, Segment
SetColor(x, r, g, b) ==
    [x EXCEPT !.style.color = Some([r |-> r, g |-> g, b |-> b])]

\* set_style(style) of Line, Conic, Ray, Segment
SetStyle(x, style) == [x EXCEPT !.style.line_style = Some(style)]

\* set_display_label(v) of Point, Line, Conic, Ray, Segment
SetDisplayLabel(x, v) == [x EXCEPT !.style.display_label = v]

-----------------------------------------------------------------------------
(* lib.rs: Numeric arithmetic and equality, the coordinates of a Point *)

\* str::parse::<f64> on one atom without a sign: the decimal digits of an
\* integer, optionally followed by ".0", or "NaN"; the value read is
\* [nan, value]
ParseUnsigned(atom) ==
    IF atom = "NaN" THEN Some([nan |-> TRUE, value |-> 0])
    ELSE IF \E n \in 0..MaxLit : atom \in {ToString(n), ToString(n) \o ".0"}
         THEN Some([nan |-> FALSE,
                    value |-> CHOOSE n \in 0..MaxLit :
                                 atom \in {ToString(n), ToString(n) \o ".0"}])
         ELSE None

\* str::parse::<f64>: the whole text is one literal, with an optional sign;
\* blanks, parentheses, labels and the "v + 0i" form are errors
ParseF64(text) ==
    IF Len(text) = 1 THEN ParseUnsigned(text[1])
    ELSE IF Len(text) = 2 /\ text[1] = "+" THEN ParseUnsigned(text[2])
    ELSE IF Len(text) = 2 /\ text[1] = "-" /\ IsSome(ParseUnsigned(text[2]))
         THEN Some([ParseUnsigned(text[2])[1] EXCEPT !.value = 0 - @])
    ELSE None

\* v.partial_cmp(&u).is_some_and(|v| v.is_eq())
PartialCmpIsEq(v, u) == ~v.nan /\ ~u.nan /\ v.value = u.value

\* Numeric::is_const
IsConst(n) == IsSome(ParseF64(n.expr))

\* Numeric::zero(), Numeric::one()
NumericZero == Newtype("Numeric", ExpressionExpr(<<"0">>), FALSE)
NumericOne == Newtype("Numeric", ExpressionExpr(<<"1">>), FALSE)

\* the templates of add_assign, sub_assign, mul_assign, div_assign,
\* rem_assign
ArithOps == {"add", "sub", "mul", "div", "rem"}
ArithTemplate(op) ==
    CASE op = "add" -> <<"(", "{}", ")", " ", "+", " ", "(", "{}", ")">>
      [] op = "sub" -> <<"(", "{}", ")", " ", "-", " ", "(", "{}", ")">>
      [] op = "mul" -> <<"(", "{}", ")", " ", "*", " ", "(", "{}", ")">>
      [] op = "div" -> <<"(", "{}", ")", " ", "/", " ", "(", "{}", ")">>
      [] op = "rem" -> <<"Mod", "(", "{}", ",", " ", "{}", ")">>

\* mutant: the operands are written without their parentheses
NumericArithBare(self, op, rhs) ==
    Handle("Numeric",
           Format(<<"{}", " ", "+", " ", "{}">>,
                  <<self.expr, Into(rhs, "Numeric").expr>>),
           StyleDefault, self.raw \/ RawOf(rhs))

\* self + rhs, self - rhs, self * rhs, self / rhs, self % rhs
NumericArith(self, op, rhs) ==
    Handle("Numeric",
           Format(ArithTemplate(op), <<self.expr, Into(rhs, "Numeric").expr>>),
           StyleDefault, self.raw \/ RawOf(rhs))

\* -self
NumericNeg(self) ==
    Handle("Numeric", Format(<<"-", "(", "{}", ")">>, <<self.expr>>),
           StyleDefault, self.raw)

\* mutant: only identical texts are equal
NumericEqTextOnly(self, other) == self.expr = Into(other, "Numeric").expr

\* <Numeric as PartialEq<T>>::eq(&self, &other)
NumericEq(self, other) ==
    LET o == Into(other, "Numeric") IN
    IF self.expr = o.expr THEN TRUE
    ELSE IF IsSome(ParseF64(self.expr))
         THEN IF IsSome(ParseF64(o.expr))
              THEN PartialCmpIsEq(Unwrap(ParseF64(self.expr)),
                                  Unwrap(ParseF64(o.expr)))
              ELSE FALSE
         ELSE FALSE

\* Point::x(self)
PointX(self) ==
    Handle("Numeric", Format(<<"x", "(", "{}", ")">>, <<self.expr>>),
           StyleDefault, self.raw)

\* Point::y(self)
PointY(self) ==
    Handle("Numeric", Format(<<"y", "(", "{}", ")">>, <<self.expr>>),
           StyleDefault, self.raw)

\* Point::complex(self)
PointComplex(self) ==
    Newtype("Numeric",
            ExpressionExpr(Format(<<"ToComplex", "(", "{}", ")">>, <<self.expr>>)),
            self.raw)

\* PointAccess::x, PointAccess::y, PointAccess::complex
PointAccessX(p) == PointX(Into(p, "Point"))
PointAccessY(p) == PointX(Into(p, "Point"))
PointAccessComplex(p) == PointComplex(Into(p, "Point"))
(* raw.rs: IndexedAttrs.  A serialized map is the sequence of its entries  *)
(* [key, value] in the order they are written and read; the key           *)
(* "@a<i>" is the attribute a<i>.                                         *)

\* <IndexedAttrs<T> as Serialize>::serialize
IndexedAttrsSerialize(attrs) ==
    [i \in 1..Len(attrs) |-> [key |-> "@a" \o ToString(i - 1), value |-> attrs[i]]]

\* what a MapAccess does when a value is asked for while no key was read,
\* which serde leaves to the Deserializer: fail, panic, or hand out the
\* next value of the map
MapPolicies == {"error", "panic", "lenient"}

\* map.next_value::<Option<T>>() as visit_map calls it: no key was read
NextValue(map, pos, policy) ==
    CASE policy = "error"   -> [outcome |-> "Err", value |-> None]
      [] policy = "panic"   -> [outcome |-> "panic", value |-> None]
      [] policy = "lenient" ->
            IF pos <= Len(map) THEN [outcome |-> "Ok", value |-> Some(map[pos].value)]
                               ELSE [outcome |-> "Ok", value |-> None]

\* the while let loop of visit_map: the values are pushed as they arrive,
\* an error is passed on by ?
RECURSIVE VisitMapLoop(_, _, _, _)
VisitMapLoop(map, pos, attrs, policy) ==
    LET v == NextValue(map, pos, policy) IN
    IF v.outcome # "Ok" THEN [outcome |-> v.outcome, attrs |-> <<>>]
    ELSE IF IsSome(v.value)
         THEN VisitMapLoop(map, pos + 1, Append(attrs, Unwrap(v.value)), policy)
         ELSE [outcome |-> "Ok", attrs |-> attrs]

\* <IndexedAttrsVisitor<T> as Visitor>::visit_map
VisitMap(map, policy) == VisitMapLoop(map, 1, <<>>, policy)

\* <IndexedAttrs<T> as Deserialize>::deserialize
IndexedAttrsDeserialize(map, policy) == VisitMap(map, policy)

-----------------------------------------------------------------------------
(* lib.rs: the label allocator and the construction builder *)

\* mutant: only the Expression-records are looked at
CollidesExpressionOnly(its, label) ==
    \E i \in 1..Len(its) : its[i].tag = "Expression" /\ its[i].label = label

\* the closure of next_label's while condition: some item carries the label
Collides(its, label) ==
    \E i \in 1..Len(its) :
        CASE its[i].tag = "Element"    -> its[i].label = label
          [] its[i].tag = "Command"    -> FALSE
          [] its[i].tag = "Expression" -> its[i].label = label

\* self.next_id += 1 on a usize: the sum modulo 2^width
Increment(id) == (id + 1) % (2 ^ UsizeBits)

\* mutant: only the first candidate is checked against the document
NextLabelLoopOnce(its, label, id) ==
    IF Collides(its, label)
    THEN [label |-> FormatLabel(id), next_id |-> Increment(id)]
    ELSE [label |-> label, next_id |-> id]

\* the while loop of next_label
RECURSIVE NextLabelLoop(_, _, _)
NextLabelLoop(its, label, id) ==
    IF Collides(its, label)
    THEN NextLabelLoop(its, FormatLabel(id), Increment(id))
    ELSE [label |-> label, next_id |-> id]

\* mutant: the label is formatted from the counter, which is neither
\* incremented nor checked against the document
next_label_stale(its, id) == [label |-> FormatLabel(id), next_id |-> id]

\* Geogebra::next_label: the label returned and the counter left behind
next_label(its, id) == NextLabelLoop(its, FormatLabel(id), Increment(id))

\* the Element pushed by Geogebra::add
AddElement(a, label, caption) ==
    [to_element(ExpressionFrom(a).style) EXCEPT
        !.type_ = get_type(a), !.label = label,
        !.caption = Some(ValFrom(caption))]

\* the Element pushed by Geogebra::add_point
AddPointElement(point, label, caption, hint) ==
    [to_element(Into(point, "Point").style) EXCEPT
        !.type_ = "Point", !.label = label,
        !.caption = Some(ValFrom(caption)),
        !.coords = Some(CoordsXy(hint[1], hint[2]))]

\* mutant: the Show::none() override is left out
VarElementShown(a, label) ==
    [to_element(ExpressionFrom(a).style) EXCEPT
        !.type_ = get_type(a), !.label = label, !.caption = None]

\* the Element pushed by Geogebra::var
VarElement(a, label) ==
    [to_element(ExpressionFrom(a).style) EXCEPT
        !.type_ = get_type(a), !.label = label,
        !.caption = None, !.show = ShowNone]

\* mutant: the Element is pushed before the Expression-record
Push2Swapped(its, expression, element) ==
    Append(Append(its, element), expression)

\* mutant: the two items replace the document
Push2Replacing(its, expression, element) == <<expression, element>>

\* the two pushes of a registration
Push2(its, expression, element) == Append(Append(its, expression), element)

-----------------------------------------------------------------------------
(* The caller's inputs *)

Modes == {"ref", "value"}
PairLits == {[x |-> 1, y |-> 2]}
F64Lits == {[value |-> 3]}
Captions == {"A"}
Hints == {<<4, 5>>}
Colors == {<<255, 0, 0>>}
LineStyles == {[thickness |-> Some(5), type_ |-> Some(10), opacity |-> None]}
RawTexts == {<<"elem1">>, <<"7">>}
Radixes == {10, 16}
ForeignVars == {VarNew("elem2", "Point")}

\* everything the caller can pass: its handle (or a clone of it), the Vars
\* it holds, by value or by reference, and literals
Avail ==
    (IF IsSome(h) THEN {Arg("Handle", Unwrap(h), TRUE, "value")} ELSE {})
    \cup {Arg("Var", v, TRUE, m) : v \in held, m \in Modes}
    \cup {Arg("Var", v, FALSE, m) : v \in foreign, m \in Modes}
    \cup {Arg("Pair", p, TRUE, "value") : p \in PairLits}
    \cup {Arg("f64", x, TRUE, "value") : x \in F64Lits}

\* Rust's ownership: a Var passed by value is moved out of the caller's
\* hands, so it is passed once and not borrowed in the same call
MovesOk(args) ==
    \A i, j \in 1..Len(args) :
        (i < j /\ args[i].rust = "Var" /\ args[j].rust = "Var"
               /\ args[i].v = args[j].v /\ args[i].own = args[j].own)
            => (args[i].mode = "ref" /\ args[j].mode = "ref")

Moved(args, own) ==
    {args[i].v : i \in {j \in 1..Len(args) :
        args[j].rust = "Var" /\ args[j].mode = "value" /\ args[j].own = own}}

\* one more operation of the script
Step == steps' = steps + 1

\* an algebra operation: the caller keeps the handle it returns
Built(op, args, result) ==
    /\ Step
    /\ Len(result.expr) <= MaxLen
    /\ MovesOk(args)
    /\ h' = Some(result)
    /\ held' = held \ Moved(args, TRUE)
    /\ foreign' = foreign \ Moved(args, FALSE)
    /\ last' = [op |-> op, args |-> args]
    /\ UNCHANGED <<data, items, next_id, calls>>

-----------------------------------------------------------------------------
(* The operations *)

\* Geogebra::new()
Init ==
    /\ data = [format |-> "5.0", app |-> "suite", sub_app |-> "geometry"]
    /\ items = <<>>
    /\ next_id = 0
    /\ h = None
    /\ held = {}
    /\ foreign = {}
    /\ calls = <<>>
    /\ last = [op |-> "Geogebra::new", args |-> <<>>]
    /\ steps = 0

DoFrom ==
    /\ steps < MaxSteps
    /\ \E a \in Avail, kind \in Kinds :
           /\ a.rust # "Handle"
           /\ Convertible(a, kind)
           /\ Built("from", <<a>>, From(a, kind))

DoPointIntersect ==
    /\ steps < MaxSteps
    /\ \E k \in Avail, l \in Avail :
           /\ Convertible(k, "Line") /\ Convertible(l, "Line")
           /\ Built("Point::intersect", <<k, l>>, PointIntersect(k, l))

DoPointOn ==
    /\ steps < MaxSteps
    /\ \E v \in Avail :
           /\ IsObject(v)
           /\ Built("Point::on", <<v>>, PointOn(v))

DoLineNew ==
    /\ steps < MaxSteps
    /\ \E a \in Avail, b \in Avail :
           /\ Convertible(a, "Point") /\ Convertible(b, "Point")
           /\ Built("Line::new", <<a, b>>, LineNew(a, b))

DoLineAngleBisector ==
    /\ steps < MaxSteps
    /\ \E a \in Avail, b \in Avail, c \in Avail :
           /\ Convertible(a, "Point") /\ Convertible(b, "Point")
           /\ Convertible(c, "Point")
           /\ Built("Line::angle_bisector", <<a, b, c>>, LineAngleBisector(a, b, c))

DoLinePerpendicular ==
    /\ steps < MaxSteps
    /\ \E to \in Avail, through \in Avail :
           /\ Convertible(to, "Line") /\ Convertible(through, "Point")
           /\ Built("Line::perpendicular", <<to, through>>,
                    LinePerpendicular(to, through))

DoLineParallel ==
    /\ steps < MaxSteps
    /\ \E to \in Avail, through \in Avail :
           /\ Convertible(to, "Line") /\ Convertible(through, "Point")
           /\ Built("Line::parallel", <<to, through>>, LineParallel(to, through))

DoSegmentNew ==
    /\ steps < MaxSteps
    /\ \E a \in Avail, b \in Avail :
           /\ Convertible(a, "Point") /\ Convertible(b, "Point")
           /\ Built("Segment::new", <<a, b>>, SegmentNew(a, b))

DoRayNew ==
    /\ steps < MaxSteps
    /\ \E a \in Avail, b \in Avail :
           /\ Convertible(a, "Point") /\ Convertible(b, "Point")
           /\ Built("Ray::new", <<a, b>>, RayNew(a, b))

DoConicCircle ==
    /\ steps < MaxSteps
    /\ \E center \in Avail, radius \in Avail :
           /\ Convertible(center, "Point") /\ Convertible(radius, "Numeric")
           /\ Built("Conic::circle", <<center, radius>>, ConicCircle(center, radius))

DoConicCenter ==
    /\ steps < MaxSteps
    /\ \E c \in Avail :
           /\ Convertible(c, "Conic")
           /\ Built("Conic::center", <<c>>, ConicCenter(c))

DoFromStrRadix ==
    /\ steps < MaxSteps
    /\ \E str \in RawTexts, radix \in Radixes :
           LET r == NumericFromStrRadix(str, radix) IN
           /\ Step
           /\ h' = IF r.ok THEN r.value ELSE h
           /\ last' = [op |-> "Numeric::from_str_radix", args |-> <<str, radix>>]
           /\ UNCHANGED <<data, items, next_id, held, foreign, calls>>

\* the elements of one iterator have one Rust type
DoListFrom ==
    /\ steps < MaxSteps
    /\ \E n \in 0..MaxList : \E elems \in [1..n -> Avail] :
           /\ \A i, j \in 1..n :
                 /\ elems[i].rust = elems[j].rust
                 /\ elems[i].mode = elems[j].mode
                 /\ Target(elems[i]) = Target(elems[j])
           /\ Built("List::from", elems, ListFrom(elems))

DoSetColor ==
    /\ steps < MaxSteps
    /\ \E c \in Colors :
           /\ Step
           /\ IsSome(h)
           /\ Unwrap(h).kind \in {"Point", "Line", "Conic", "Ray", "Segment"}
           /\ h' = Some(SetColor(Unwrap(h), c[1], c[2], c[3]))
           /\ last' = [op |-> "set_color", args |-> <<c>>]
           /\ UNCHANGED <<data, items, next_id, held, foreign, calls>>

DoSetStyle ==
    /\ steps < MaxSteps
    /\ \E style \in LineStyles :
           /\ Step
           /\ IsSome(h)
           /\ Unwrap(h).kind \in {"Line", "Conic", "Ray", "Segment"}
           /\ h' = Some(SetStyle(Unwrap(h), style))
           /\ last' = [op |-> "set_style", args |-> <<style>>]
           /\ UNCHANGED <<data, items, next_id, held, foreign, calls>>

DoSetDisplayLabel ==
    /\ steps < MaxSteps
    /\ \E v \in BOOLEAN :
           /\ Step
           /\ IsSome(h)
           /\ Unwrap(h).kind \in {"Point", "Line", "Conic", "Ray", "Segment"}
           /\ h' = Some(SetDisplayLabel(Unwrap(h), v))
           /\ last' = [op |-> "set_display_label", args |-> <<v>>]
           /\ UNCHANGED <<data, items, next_id, held, foreign, calls>>

\* the caller calls the public <T as Expr>::var(label) itself
DoExprVar ==
    /\ steps < MaxSteps
    /\ \E v \in ForeignVars :
           /\ Step
           /\ v \notin foreign
           /\ foreign' = foreign \cup {v}
           /\ last' = [op |-> "Expr::var", args |-> <<v>>]
           /\ UNCHANGED <<data, items, next_id, h, held, calls>>

\* what every registration does with its result
Registered(op, a, caption, hint, nl, expression, element) ==
    /\ Step
    /\ items' = Push2(items, expression, element)
    /\ next_id' = nl.next_id
    /\ held' = (held \ Moved(<<a>>, TRUE)) \cup {ExprVar(a, nl.label)}
    /\ foreign' = foreign \ Moved(<<a>>, FALSE)
    /\ calls' = Append(calls, [op |-> op, arg |-> a, caption |-> caption,
                               hint |-> hint, ret |-> ExprVar(a, nl.label)])
    /\ last' = [op |-> op, args |-> <<a>>]
    /\ UNCHANGED <<data, h>>

\* Geogebra::add(expr, caption)
Add ==
    /\ steps < MaxSteps
    /\ \E a \in Avail, caption \in Captions :
           LET nl == next_label(items, next_id) IN
           /\ Target(a) \in Addable
           /\ Registered("add", a, Some(caption), None, nl,
                         RawExpression(get_type(a), nl.label, ExpressionFrom(a).expr),
                         AddElement(a, nl.label, caption))

\* Geogebra::add_point(point, caption, (x, y))
AddPoint ==
    /\ steps < MaxSteps
    /\ \E a \in Avail, caption \in Captions, hint \in Hints :
           LET nl == next_label(items, next_id) IN
           /\ Convertible(a, "Point")
           /\ Registered("add_point", a, Some(caption), Some(hint), nl,
                         RawExpression("Point", nl.label, Into(a, "Point").expr),
                         AddPointElement(a, nl.label, caption, hint))

\* Geogebra::var(expr)
Var ==
    /\ steps < MaxSteps
    /\ \E a \in Avail :
           LET nl == next_label(items, next_id) IN
           Registered("var", a, None, None, nl,
                      RawExpression(get_type(a), nl.label, ExpressionFrom(a).expr),
                      VarElement(a, nl.label))

Next ==
    \/ DoFrom
    \/ DoPointIntersect
    \/ DoPointOn
    \/ DoLineNew
    \/ DoLineAngleBisector
    \/ DoLinePerpendicular
    \/ DoLineParallel
    \/ DoSegmentNew
    \/ DoRayNew
    \/ DoConicCircle
    \/ DoConicCenter
    \/ DoFromStrRadix
    \/ DoListFrom
    \/ DoSetColor
    \/ DoSetStyle
    \/ DoSetDisplayLabel
    \/ DoExprVar
    \/ Add
    \/ AddPoint
    \/ Var

Spec == Init /\ [][Next]_vars

-----------------------------------------------------------------------------
(* The numeric part of the API: scripts over Numeric and Point values *)

NumF64Lits == {[value |-> 1], [value |-> 2], [value |-> 3]}
NumTexts == {<<"1.0">>, <<"NaN">>, <<"-", "0">>}

\* the Numeric literals a caller writes: an f64, Numeric::zero(),
\* Numeric::one(), Numeric::from_str_radix(text, 10).unwrap()
NumLiterals ==
    {Arg("f64", x, TRUE, "value") : x \in NumF64Lits}
    \cup {Arg("Handle", NumericZero, TRUE, "value"),
          Arg("Handle", NumericOne, TRUE, "value")}
    \cup {Arg("Handle", Unwrap(NumericFromStrRadix(t, 10).value), TRUE, "value") :
             t \in NumTexts}

\* what converts to a Numeric: the literals, the caller's handle, a
\* borrowed Var<Numeric>
NumOperands == NumLiterals \cup {a \in Avail : Convertible(a, "Numeric")}

\* the right operands of the arithmetic: an f64, the caller's handle, a
\* borrowed Var<Numeric>
ArithOperands ==
    {Arg("f64", x, TRUE, "value") : x \in NumF64Lits}
    \cup {a \in Avail : Convertible(a, "Numeric")}

DoNumericFrom ==
    /\ steps < MaxSteps
    /\ \E o \in NumLiterals :
           Built("Numeric::from", <<o>>, Into(o, "Numeric"))

DoArith ==
    /\ steps < MaxSteps
    /\ IsSome(h)
    /\ Unwrap(h).kind = "Numeric"
    /\ \E op \in ArithOps, rhs \in ArithOperands :
           Built("Numeric::" \o op, <<Arg("Handle", Unwrap(h), TRUE, "value"), rhs>>,
                 NumericArith(Unwrap(h), op, rhs))

DoNeg ==
    /\ steps < MaxSteps
    /\ IsSome(h)
    /\ Unwrap(h).kind = "Numeric"
    /\ Built("Numeric::neg", <<Arg("Handle", Unwrap(h), TRUE, "value")>>,
             NumericNeg(Unwrap(h)))

\* self == other: both are borrowed, nothing moves
DoNumericEq ==
    /\ steps < MaxSteps
    /\ IsSome(h)
    /\ Unwrap(h).kind = "Numeric"
    /\ \E other \in NumOperands :
           /\ Step
           /\ last' = [op |-> "Numeric::eq",
                       args |-> <<Arg("Handle", Unwrap(h), TRUE, "value"), other>>,
                       result |-> NumericEq(Unwrap(h), other)]
           /\ UNCHANGED <<data, items, next_id, h, held, foreign, calls>>

\* p.x(), p.y(), p.complex(): the inherent method of a Point, the
\* PointAccess method of anything that converts to a Point
PointMethods == {"x", "y", "complex"}
DoPointAccess ==
    /\ steps < MaxSteps
    /\ \E p \in Avail, m \in PointMethods, via \in {"Point", "PointAccess"} :
           /\ Convertible(p, "Point")
           /\ via = "Point" => p.rust = "Handle"
           /\ Built(via \o "::" \o m, <<p>>,
                    CASE via = "Point" /\ m = "x" -> PointX(p.v)
                      [] via = "Point" /\ m = "y" -> PointY(p.v)
                      [] via = "Point" /\ m = "complex" -> PointComplex(p.v)
                      [] via = "PointAccess" /\ m = "x" -> PointAccessX(p)
                      [] via = "PointAccess" /\ m = "y" -> PointAccessY(p)
                      [] via = "PointAccess" /\ m = "complex" -> PointAccessComplex(p))

NextNumeric ==
    \/ DoFrom
    \/ DoNumericFrom
    \/ DoArith
    \/ DoNeg
    \/ DoNumericEq
    \/ DoPointAccess
    \/ AddPoint
    \/ Var

SpecNumeric == Init /\ [][NextNumeric]_vars

-----------------------------------------------------------------------------
(* raw.rs: encoding and decoding IndexedAttrs<String> *)

AttrValues == {"x", "y", "z"}
AttrLists == UNION {[1..n -> AttrValues] : n \in 0..MaxAttrs}

\* the attribute names a map to decode may carry
AttrKeys == {"@a" \o ToString(i) : i \in 0..(MaxAttrs - 1)} \cup {"@b"}

\* the maps to decode: up to MaxAttrs attributes of different names, in
\* any order
AttrMaps ==
    {m \in UNION {[1..n -> [key : AttrKeys, value : AttrValues]] : n \in 0..MaxAttrs} :
        \A i, j \in 1..Len(m) : i # j => m[i].key # m[j].key}

\* one call on one input: the two operations keep no state
DoSerialize ==
    /\ steps = 0
    /\ \E attrs \in AttrLists :
           /\ Step
           /\ last' = [op |-> "IndexedAttrs::serialize", args |-> <<attrs>>,
                       result |-> IndexedAttrsSerialize(attrs)]
           /\ UNCHANGED <<data, items, next_id, h, held, foreign, calls>>

DoDeserialize ==
    /\ steps = 0
    /\ \E map \in AttrMaps, policy \in MapPolicies :
           /\ Step
           /\ last' = [op |-> "IndexedAttrs::deserialize", args |-> <<map>>,
                       policy |-> policy,
                       result |-> IndexedAttrsDeserialize(map, policy)]
           /\ UNCHANGED <<data, items, next_id, h, held, foreign, calls>>

NextAttrs ==
    \/ DoSerialize
    \/ DoDeserialize

SpecAttrs == Init /\ [][NextAttrs]_vars

-----------------------------------------------------------------------------
(* The label allocator on documents that already hold labels *)

\* raw::Command (indexed inputs and outputs, no label)
RawCommand == [tag |-> "Command", name |-> "Circle", input |-> <<>>, output |-> <<>>]

\* the items that carry a label: its Expression-record, its Element, or both
DocShapes == {"pair", "expression", "element"}
ItemsFor(label, shape) ==
    LET expression == RawExpression("Numeric", label, <<"7">>)
        element == [to_element(StyleDefault) EXCEPT !.type_ = "Numeric", !.label = label]
    IN CASE shape = "pair"       -> <<expression, element>>
         [] shape = "expression" -> <<expression>>
         [] shape = "element"    -> <<element>>

\* the items of the labels numbered by S within lo..hi (a usize each)
RECURSIVE DocFrom(_, _, _, _)
DocFrom(S, lo, hi, shape) ==
    IF lo > hi THEN <<>>
    ELSE (IF lo \in S THEN ItemsFor(FormatLabel(lo % (2 ^ UsizeBits)), shape) ELSE <<>>)
         \o DocFrom(S, lo + 1, hi, shape)

\* a workspace whose counter is c and whose document holds up to MaxDoc of
\* the labels the counter comes to next, two calls before the script ends
InitLabelAt(counters) ==
    /\ data = [format |-> "5.0", app |-> "suite", sub_app |-> "geometry"]
    /\ \E c \in counters, shape \in DocShapes, command \in BOOLEAN :
       \E S \in SUBSET (c..(c + MaxDoc)) :
           /\ Cardinality(S) <= MaxDoc
           /\ items = (IF command THEN <<RawCommand>> ELSE <<>>)
                         \o DocFrom(S, c, c + MaxDoc, shape)
           /\ next_id = c
    /\ h = None
    /\ held = {}
    /\ foreign = {}
    /\ calls = <<>>
    /\ last = [op |-> "earlier calls", args |-> <<>>]
    /\ steps = MaxSteps - 2

NextLabel ==
    \/ Add
    \/ AddPoint
    \/ Var

\* the counter is far from usize::MAX
InitLabel == InitLabelAt({0, 1})
SpecLabel == InitLabel /\ [][NextLabel]_vars

\* the counter is about to wrap
InitWrap == InitLabelAt({2 ^ UsizeBits - 2, 2 ^ UsizeBits - 1})
SpecWrap == InitWrap /\ [][NextLabel]_vars

-----------------------------------------------------------------------------
(* Writing the workspace *)

\* Geogebra::write(&self, stream): the workspace is borrowed, the bytes go
\* to the caller's stream
Write ==
    /\ steps < MaxSteps
    /\ Step
    /\ last' = [op |-> "write", args |-> <<>>]
    /\ UNCHANGED <<data, items, next_id, h, held, foreign, calls>>

NextFrame ==
    \/ Next
    \/ Write

SpecFrame == Init /\ [][NextFrame]_vars

-----------------------------------------------------------------------------
(* Vocabulary of the properties *)

RegOps == {"add", "add_point", "var"}

\* the Expression-record and the Element of the k-th registration
ExprOf(k) == items[2 * k - 1]
ElemOf(k) == items[2 * k]

\* the style of the node handed to the k-th registration
StyleOf(k) == ExpressionFrom(calls[k].arg).style

\* the atoms that are label references: the tokens elem<n>
LabelAtoms == {FormatLabel(n) : n \in 0..(2 * MaxSteps)}
Refs(text) == {text[i] : i \in {j \in 1..Len(text) : text[j] \in LabelAtoms}}

\* label is bound by an Expression-record/Element pair wholly before item i
DefinedBefore(label, i) ==
    \E j \in 1..Len(items) :
        /\ j + 1 < i
        /\ items[j].tag = "Expression" /\ items[j].label = label
        /\ items[j + 1].tag = "Element" /\ items[j + 1].label = label

\* the number of times atom t occurs in text
RECURSIVE Count(_, _)
Count(text, t) ==
    IF text = <<>> THEN 0
    ELSE (IF Head(text) = t THEN 1 ELSE 0) + Count(Tail(text), t)

-----------------------------------------------------------------------------
(* C1 *)

\* C1: the labels the registrations returned are pairwise distinct, and no
\* two Expression-records of the item list carry the same label.
C1_LabelsPairwiseDistinct ==
    /\ \A i, j \in 1..Len(calls) :
          i # j => calls[i].ret.label # calls[j].ret.label
    /\ \A i, j \in 1..Len(items) :
          (i # j /\ items[i].tag = "Expression" /\ items[j].tag = "Expression")
              => items[i].label # items[j].label

\* three registrations, one through each entry point
C1_Witness ==
    /\ Len(calls) = 3
    /\ {calls[k].op : k \in 1..3} = RegOps

-----------------------------------------------------------------------------
(* C2 *)

\* C2: every registration call grows the item list by exactly two items, an
\* Expression-record and then an Element, both with the label of the Var
\* the call returns; nothing else grows the list and no Command is appended.
C2_RegistrationAppendsPair ==
    [][ /\ (Len(calls') = Len(calls) + 1) =>
              /\ Len(items') = Len(items) + 2
              /\ items'[Len(items) + 1].tag = "Expression"
              /\ items'[Len(items) + 2].tag = "Element"
              /\ items'[Len(items) + 1].label = calls'[Len(calls')].ret.label
              /\ items'[Len(items) + 2].label = calls'[Len(calls')].ret.label
              /\ calls'[Len(calls')].ret \in held'
        /\ (Len(items') # Len(items)) => (Len(calls') = Len(calls) + 1)
        /\ \A i \in 1..Len(items') : items'[i].tag # "Command"
      ]_vars

\* a registration has just acted on a document that already held a pair
C2_Witness ==
    /\ last.op \in RegOps
    /\ Len(calls) = 2
    /\ Len(items) = 4

-----------------------------------------------------------------------------
(* C3 *)

\* the text an argument is expected to contribute: a Var its label, any
\* other argument its own text
Contribution(a) ==
    IF a.rust = "Var" THEN <<a.v.label>> ELSE ExpressionFrom(a).expr

\* the textual template of each algebra operation, "{}" marking an operand
TemplateOf(op, n) ==
    CASE op = "from"                -> <<"{}">>
      [] op = "Point::intersect"    -> <<"Intersect", "(", "{}", ",", " ", "{}", ")">>
      [] op = "Point::on"           -> <<"Point", "(", "{}", ")">>
      [] op = "Line::new"           -> <<"Line", "(", "{}", ",", " ", "{}", ")">>
      [] op = "Line::angle_bisector" ->
             <<"AngleBisector", "(", "{}", ",", " ", "{}", ",", " ", "{}", ")">>
      [] op = "Line::perpendicular" ->
             <<"PerpendicularLine", "(", "{}", ",", " ", "{}", ")">>
      [] op = "Line::parallel"      -> <<"Line", "(", "{}", ",", " ", "{}", ")">>
      [] op = "Segment::new"        -> <<"Segment", "(", "{}", ",", " ", "{}", ")">>
      [] op = "Ray::new"            -> <<"Ray", "(", "{}", ",", " ", "{}", ")">>
      [] op = "Conic::circle"       ->
             <<"Circle", "(", "{}", ",", " ", "abs", "(", "{}", ")", ")">>
      [] op = "Conic::center"       -> <<"Center", "(", "{}", ")">>
      [] op = "List::from"          ->
             CASE n = 0 -> <<"{", "}">>
               [] n = 1 -> <<"{", "{}", "}">>
               [] n = 2 -> <<"{", "{}", ",", " ", "{}", "}">>
               [] n = 3 -> <<"{", "{}", ",", " ", "{}", ",", " ", "{}", "}">>

\* perpendicular(to, through) and parallel(to, through) print through first
PrintOrder(op, args) ==
    IF op \in {"Line::perpendicular", "Line::parallel"}
    THEN <<args[2], args[1]>> ELSE args

AlgebraOps ==
    {"from", "Point::intersect", "Point::on", "Line::new",
     "Line::angle_bisector", "Line::perpendicular", "Line::parallel",
     "Segment::new", "Ray::new", "Conic::circle", "Conic::center", "List::from"}

\* C3: in the formula an algebra operation returns, every Var operand, passed
\* by value or by reference, stands as exactly its label (one atom), never as
\* the formula registered under the label.
C3_VarContributesItsLabel ==
    last.op \in AlgebraOps =>
        Unwrap(h).expr =
            Format(TemplateOf(last.op, Len(last.args)),
                   [i \in 1..Len(last.args) |->
                        Contribution(PrintOrder(last.op, last.args)[i])])

\* one registered Var, whose formula is longer than its label, has been used
\* three times across two operations, the last one taking it by reference
C3_Witness ==
    /\ last.op \in AlgebraOps
    /\ Len(last.args) = 2
    /\ \E k \in 1..Len(calls) :
          /\ Len(ExprOf(k).exp) > 1
          /\ Count(Unwrap(h).expr, calls[k].ret.label) >= 3
          /\ \E i \in 1..Len(last.args) :
                /\ last.args[i].rust = "Var"
                /\ last.args[i].v = calls[k].ret
                /\ last.args[i].mode = "ref"

-----------------------------------------------------------------------------
(* C4 *)

\* C4 as stated: every label referenced in the formula of an
\* Expression-record is bound by a pair that appears earlier in the list.
C4_NoUndefinedOrForwardReference ==
    \A i \in 1..Len(items) :
        items[i].tag = "Expression" =>
            \A l \in Refs(items[i].exp) : DefinedBefore(l, i)

\* C4 amended: in the formula of a node built only from literals and Vars
\* that registrations of this workspace returned, every label referenced is
\* bound by a pair that appears earlier in the list.  (Text the caller wrote
\* itself, through from_str_radix or Expr::var, is not covered.)
C4_OwnVarsReferToEarlierPairs ==
    \A k \in 1..Len(calls) :
        ~RawOf(calls[k].arg) =>
            \A l \in Refs(ExprOf(k).exp) : DefinedBefore(l, 2 * k - 1)

\* a composed formula that references a registered label has been registered
C4_Witness ==
    \E k \in 1..Len(calls) :
        /\ ~RawOf(calls[k].arg)
        /\ Len(ExprOf(k).exp) > 1
        /\ Refs(ExprOf(k).exp) # {}

-----------------------------------------------------------------------------
(* C5 *)

\* C5 as stated: add registers only Point, Line, Conic and Segment nodes, so
\* add never produces a captioned Element of type Ray, Numeric or List.
C5_AddTakesOnlyFourKinds ==
    \A k \in 1..Len(calls) :
        calls[k].op = "add" =>
            /\ Target(calls[k].arg) \in {"Point", "Line", "Conic", "Segment"}
            /\ ~(/\ IsSome(ElemOf(k).caption)
                 /\ ElemOf(k).type_ \in {"Ray", "Numeric", "List"})

-----------------------------------------------------------------------------
(* C6 *)

\* C6: the Element of a registration through var has no caption and is shown
\* neither as an object nor by its label, whatever the style of the node;
\* the Element of a registration through add or add_point has a caption and
\* is shown as an object.
C6_VarHiddenAddShown ==
    \A k \in 1..Len(calls) :
        /\ calls[k].op = "var" =>
              /\ ElemOf(k).caption = <<>>
              /\ ElemOf(k).show = [object |-> FALSE, label |-> FALSE]
        /\ calls[k].op \in {"add", "add_point"} =>
              /\ ElemOf(k).caption # <<>>
              /\ ElemOf(k).show.object = TRUE

\* var has registered a node whose style shows the label and sets a color,
\* and add or add_point has registered another node
C6_Witness ==
    /\ \E k \in 1..Len(calls) :
          /\ calls[k].op = "var"
          /\ StyleOf(k).display_label
          /\ StyleOf(k).color # <<>>
    /\ \E k \in 1..Len(calls) : calls[k].op \in {"add", "add_point"}

-----------------------------------------------------------------------------
(* C7 *)

\* C7 as stated: the type tags of the Expression-record and of the Element
\* of a registration are equal, they are the tag of the kind of the node
\* registered (a Var<T> counting as T, a pair as Point, an f64 as Numeric),
\* and that tag is a value of ElementType for every kind, List included.
C7_TypeTagIsTheKindsElementType ==
    \A k \in 1..Len(calls) :
        /\ ExprOf(k).type_ = ElemOf(k).type_
        /\ ExprOf(k).type_ = Target(calls[k].arg)
        /\ ExprOf(k).type_ \in ElementType

-----------------------------------------------------------------------------
(* C8 *)

\* C8: the Element of a registration through add is shown as an object, shows
\* its label exactly when the node's style says so, has label mode Caption,
\* the line-style and the color of the node's style, and no coordinates;
\* coordinates are present only after add_point, and then are (x, y, 1).
C8_ElementProjectsStyle ==
    \A k \in 1..Len(calls) :
        /\ calls[k].op = "add" =>
              /\ ElemOf(k).show = [object |-> TRUE,
                                   label |-> StyleOf(k).display_label]
              /\ ElemOf(k).label_mode = [val |-> "Caption"]
              /\ ElemOf(k).line_style = StyleOf(k).line_style
              /\ ElemOf(k).obj_color = StyleOf(k).color
              /\ ElemOf(k).coords = <<>>
        /\ calls[k].op = "add_point" =>
              ElemOf(k).coords = <<[x |-> calls[k].hint[1][1],
                                    y |-> calls[k].hint[1][2], z |-> 1]>>
        /\ calls[k].op # "add_point" => ElemOf(k).coords = <<>>

\* add_point has registered a point with a position hint, and add has
\* registered a node whose style hides the label and carries a line-style
C8_Witness ==
    /\ \E k \in 1..Len(calls) :
          /\ calls[k].op = "add"
          /\ ~StyleOf(k).display_label
          /\ StyleOf(k).line_style # <<>>
    /\ \E k \in 1..Len(calls) :
          calls[k].op = "add_point" /\ ElemOf(k).coords # <<>>

-----------------------------------------------------------------------------
(* C9 *)

\* C9: Point::intersect and Conic::center return a Point with the bound
\* preset (label shown, no line-style, color 97,97,97) and Point::on one with
\* the free preset (label shown, no line-style, color 21,101,192), whatever
\* the styles of the operands.
C9_PointPresets ==
    /\ last.op \in {"Point::intersect", "Conic::center"} =>
          Unwrap(h).style =
              [display_label |-> TRUE, line_style |-> <<>>,
               color |-> <<[r |-> 97, g |-> 97, b |-> 97]>>]
    /\ last.op = "Point::on" =>
          Unwrap(h).style =
              [display_label |-> TRUE, line_style |-> <<>>,
               color |-> <<[r |-> 21, g |-> 101, b |-> 192]>>]

\* Point::intersect has just been applied to a line whose style hides the
\* label and carries a line-style
C9_Witness ==
    /\ last.op = "Point::intersect"
    /\ last.args[1].rust = "Handle"
    /\ ~last.args[1].v.style.display_label
    /\ last.args[1].v.style.line_style # <<>>

-----------------------------------------------------------------------------
(* C10 *)

\* C10 as stated: a Line, Segment, Ray or Conic fresh from any constructor
\* has its label hidden; a Line carries the default line-style, and a
\* Segment, Ray or Conic carries none.
C10_FreshStyleHidesLabel ==
    last.op \in {"Line::new", "Line::angle_bisector", "Line::perpendicular",
                 "Line::parallel", "Segment::new", "Ray::new", "Conic::circle"}
        => /\ ~Unwrap(h).style.display_label
           /\ Unwrap(h).style.line_style =
                 IF Unwrap(h).kind = "Line"
                 THEN <<[thickness |-> <<>>, type_ |-> <<>>, opacity |-> <<>>]>>
                 ELSE <<>>

-----------------------------------------------------------------------------
(* Numeric equality and arithmetic *)

\* the texts compared by the last ==
EqSelf == ExpressionFrom(last.args[1]).expr
EqOther == ExpressionFrom(last.args[2]).expr
BothLiterals == IsSome(ParseF64(EqSelf)) /\ IsSome(ParseF64(EqOther))

\* C11: a Numeric equals another value when the two texts are identical;
\* otherwise, when both texts parse as f64 literals, when the two numbers
\* compare equal; otherwise it does not.  Two different texts of which one
\* is not a literal are never equal.
C11_EqualByTextThenByLiteral ==
    last.op = "Numeric::eq" =>
        /\ EqSelf = EqOther => last.result
        /\ (EqSelf # EqOther /\ BothLiterals) =>
               (last.result <=> PartialCmpIsEq(Unwrap(ParseF64(EqSelf)),
                                               Unwrap(ParseF64(EqOther))))
        /\ (EqSelf # EqOther /\ ~BothLiterals) => ~last.result

\* two different literal texts of the same number have been compared
C11_Witness ==
    /\ last.op = "Numeric::eq"
    /\ EqSelf # EqOther
    /\ BothLiterals
    /\ last.result

\* "<x> + 0i", the text of Numeric::from(x) for a small integral x
LiteralText(x) == <<ToString(x), " ", "+", " ", "0i">>
\* "(<x> + 0i) + (<y> + 0i)"
LiteralSum(x, y) ==
    <<"(">> \o LiteralText(x) \o <<")", " ", "+", " ", "(">>
            \o LiteralText(y) \o <<")">>

\* C12: the sum of Numeric::from(x) and Numeric::from(y) has the text
\* "(x + 0i) + (y + 0i)"; it is not a literal, and comparing it with an f64
\* (or with Numeric::from of one), x + y included, gives false.
C12_LiteralSumStaysSymbolic ==
    \A x, y \in 0..MaxLit :
        /\ ( /\ last.op = "Numeric::add"
             /\ ExpressionFrom(last.args[1]).expr = LiteralText(x)
             /\ ExpressionFrom(last.args[2]).expr = LiteralText(y) )
           => /\ Unwrap(h).expr = LiteralSum(x, y)
              /\ ~IsConst(Unwrap(h))
        /\ ( /\ last.op = "Numeric::eq"
             /\ EqSelf = LiteralSum(x, y)
             /\ \E z \in 0..MaxLit : EqOther = LiteralText(z) )
           => ~last.result

\* (1 + 0i) + (2 + 0i) has been compared with 3.0
C12_Witness ==
    /\ last.op = "Numeric::eq"
    /\ EqSelf = LiteralSum(1, 2)
    /\ last.args[2] = Arg("f64", [value |-> 3], TRUE, "value")
    /\ ~last.result

-----------------------------------------------------------------------------
(* The text of a List *)

\* the texts separated by ", "
RECURSIVE JoinTexts(_)
JoinTexts(ts) ==
    IF ts = <<>> THEN <<>>
    ELSE IF Len(ts) = 1 THEN ts[1]
    ELSE ts[1] \o <<",", " ">> \o JoinTexts(Tail(ts))

\* C13: the text of List::from of n operands is "{", the operands' texts
\* joined by ", ", "}": "{}" for none, no separator for one, and every
\* operand's text kept whole.
C13_ListTextIsBracedJoin ==
    last.op = "List::from" =>
        Unwrap(h).expr =
            <<"{">> \o JoinTexts([i \in 1..Len(last.args) |->
                                     ExpressionFrom(last.args[i]).expr])
                    \o <<"}">>

\* a List of one operand whose text has several characters
C13_Witness ==
    /\ last.op = "List::from"
    /\ Len(last.args) = 1
    /\ Len(ExpressionFrom(last.args[1]).expr) > 1
    /\ Len(Unwrap(h).expr) = Len(ExpressionFrom(last.args[1]).expr) + 2

-----------------------------------------------------------------------------
(* IndexedAttrs *)

\* the map with the i-th value (from 0) under the key a<i>
Indexed(list) ==
    [i \in 1..Len(list) |-> [key |-> "@a" \o ToString(i - 1), value |-> list[i]]]

\* C14: encoding a list of n values gives exactly the keys a0 .. a(n-1),
\* a<i> holding the i-th value, and decoding that map gives the list back,
\* same length, same order.
C14_EncodeDecodeRoundTrips ==
    /\ last.op = "IndexedAttrs::serialize" =>
           last.result = Indexed(last.args[1])
    /\ last.op = "IndexedAttrs::deserialize" =>
           \A list \in AttrLists :
               last.args[1] = Indexed(list) =>
                   last.result = [outcome |-> "Ok", attrs |-> list]

\* the value a decoded list must hold for the key a<i>, where it holds one
KeyedRight(map, attrs) ==
    \A j \in 1..Len(map) :
        \E i \in 0..(Len(attrs) - 1) :
            /\ map[j].key = "@a" \o ToString(i)
            /\ attrs[i + 1] = map[j].value

\* C15: a map whose keys are out of order, skip an index or are not of the
\* form a<i> is never accepted with its values in arrival order: when the
\* decoding succeeds, the value of a<i> sits at position i.
C15_NeverAcceptedInArrivalOrder ==
    (last.op = "IndexedAttrs::deserialize" /\ last.result.outcome = "Ok") =>
        KeyedRight(last.args[1], last.result.attrs)

-----------------------------------------------------------------------------
(* The coordinates of a Point *)

\* the GeoGebra function each PointAccess method stands for
AccessFunction(op) ==
    CASE op = "PointAccess::x"       -> "x"
      [] op = "PointAccess::y"       -> "y"
      [] op = "PointAccess::complex" -> "ToComplex"

\* C16: PointAccess::x, ::y and ::complex of a value p return what
\* Point::x, ::y and ::complex of Point::from(p) return: the texts
\* "x(<p>)", "y(<p>)", "ToComplex(<p>)".
C16_AccessMatchesPointMethods ==
    last.op \in {"PointAccess::x", "PointAccess::y", "PointAccess::complex"} =>
        LET p == Into(last.args[1], "Point") IN
        /\ Unwrap(h) = (CASE last.op = "PointAccess::x"       -> PointX(p)
                          [] last.op = "PointAccess::y"       -> PointY(p)
                          [] last.op = "PointAccess::complex" -> PointComplex(p))
        /\ Unwrap(h).expr = <<AccessFunction(last.op), "(">> \o p.expr \o <<")">>

-----------------------------------------------------------------------------
(* The label allocator *)

\* the labels the Expression-records and Elements of a document carry
LabelsOf(its) ==
    {its[i].label : i \in {j \in 1..Len(its) : its[j].tag \in {"Expression", "Element"}}}

\* "elem" followed by the decimal digits of n
Candidate(n) == "elem" \o ToString(n)

\* the label the registration of this step returns
Returned == calls'[Len(calls')].ret.label

\* C17: a registration tries "elem<counter>", "elem<counter + 1>", ...,
\* the counter growing by one with each attempt; it rejects the candidates
\* that label an Expression-record or an Element of the document and
\* returns the first that does not.  So the counter grows strictly with
\* every call, and a call makes at most one attempt more than the document
\* has labels.
C17_FirstFreeCandidate ==
    [][calls' # calls =>
        LET attempts == next_id' - next_id IN
        /\ attempts >= 1
        /\ Returned = Candidate(next_id + attempts - 1)
        /\ Returned \notin LabelsOf(items)
        /\ \A j \in 0..(attempts - 2) : Candidate(next_id + j) \in LabelsOf(items)
        /\ attempts <= Cardinality(LabelsOf(items)) + 1]_vars

\* the first call on a counter of 0 or 1 returned elem3: at least two
\* candidates were rejected
C17_Witness ==
    /\ Len(calls) = 1
    /\ calls[1].ret.label = "elem3"
    /\ next_id = 4
    /\ {"elem1", "elem2"} \subseteq LabelsOf(items)

\* the candidates of a counter of UsizeBits bits
AllCandidates == {Candidate(n) : n \in 0..(2 ^ UsizeBits - 1)}

\* C18: with a counter that wraps modulo 2^w, a registration still returns
\* a candidate the document does not hold, also after the counter has
\* wrapped to values already used, provided one of the 2^w candidates is
\* unused.
C18_WrappedCounterSkipsUsedLabels ==
    [][(calls' # calls /\ AllCandidates \ LabelsOf(items) # {}) =>
        /\ Returned \in AllCandidates \ LabelsOf(items)
        /\ \A i \in 1..Len(items) :
               items[i].tag = "Command" \/ items[i].label # Returned]_vars

\* the counter stood at 2^w - 1, the document held elem<2^w - 1> and elem0:
\* the call wrapped and returned elem1
C18_Witness ==
    /\ Len(calls) = 1
    /\ calls[1].ret.label = "elem1"
    /\ next_id = 2
    /\ {"elem0", Candidate(2 ^ UsizeBits - 1)} \subseteq LabelsOf(items)

-----------------------------------------------------------------------------
(* What changes the workspace *)

\* C19: the document only grows, and only by registrations: a registration
\* leaves the items already there and format, app, subApp ("5.0", "suite",
\* "geometry") as they are; the algebra operations, the style setters and
\* write change neither the items nor the counter.
C19_OnlyRegistrationsAppend ==
    [][/\ Len(items') >= Len(items)
       /\ SubSeq(items', 1, Len(items)) = items
       /\ data' = data
       /\ data = [format |-> "5.0", app |-> "suite", sub_app |-> "geometry"]
       /\ (items' # items \/ next_id' # next_id) =>
              (last'.op \in RegOps /\ calls' # calls)
       /\ last'.op \notin RegOps => (items' = items /\ next_id' = next_id)]_vars

\* a color has been set on a handle made from the Var of a registration:
\* the Element registered under that label has no color
C19_Witness ==
    /\ last.op = "set_color"
    /\ Len(calls) = 1
    /\ Unwrap(h).expr = <<calls[1].ret.label>>
    /\ IsSome(Unwrap(h).style.color)
    /\ Len(items) = 2
    /\ items[2].obj_color = None

\* C20: after n registrations the counter is n, the document has 2n items
\* and the k-th registration (from 0) was given "elem<k>"; the candidate the
\* allocator tries next is never in the document, so its loop never
\* rejects one.
C20_CounterCountsRegistrations ==
    /\ next_id = Len(calls)
    /\ Len(items) = 2 * Len(calls)
    /\ \A k \in 1..Len(calls) :
           /\ calls[k].ret.label = "elem" \o ToString(k - 1)
           /\ items[2 * k - 1].label = "elem" \o ToString(k - 1)
           /\ items[2 * k].label = "elem" \o ToString(k - 1)
    /\ \A i \in 1..Len(items) : items[i].label # "elem" \o ToString(next_id)

\* three registrations have been made
C20_Witness ==
    /\ Len(calls) = 3
    /\ calls[3].ret.label = "elem2"
    /\ next_id = 3

=============================================================================
